---- MODULE Spec2Model ----
(***************************************************************************)
(* Model of substrate_handshake (src/src/main.rs): a client that opens a   *)
(* WebSocket stream to a node, performs a one-shot SCALE-encoded binary    *)
(* handshake (perform_handshake) and then sends a batch of three JSON-RPC  *)
(* requests and reads responses (query_node_info), both through one        *)
(* Arc<Mutex<WebSocketStream>>.  The peer is the environment: it delivers  *)
(* frames into the inbound stream and may close it.                        *)
(***************************************************************************)
EXTENDS Integers, Sequences, FiniteSets, TLC

(***************************************************************************)
(* Bounds of the model.                                                    *)
(***************************************************************************)
\* Frames the peer delivers in one run.
MaxFrames == 5
\* Frames delivered by the peer and not yet read by the client.
MaxInFlight == 2

(***************************************************************************)
(* Message Codec: parity_scale_codec's derived Encode/Decode of            *)
(* HandshakeMessage.  Byte strings are sequences of 0..255.                *)
(***************************************************************************)
RECURSIVE Flatten(_)
Flatten(ss) == IF ss = <<>> THEN <<>> ELSE Head(ss) \o Flatten(Tail(ss))

\* u32, fixed width little endian.
U32LE(n) ==
    << n % 256, (n \div 256) % 256, (n \div 65536) % 256, (n \div 16777216) % 256 >>

\* Compact<u32>: the length prefix of String and Vec.
CompactU32(n) ==
    IF n < 64 THEN << n * 4 >>
    ELSE IF n < 16384 THEN << (n * 4 + 1) % 256, (n * 4 + 1) \div 256 >>
    ELSE IF n < 1073741824 THEN U32LE(n * 4 + 2)
    ELSE << 3 >> \o U32LE(n)

EncodeStr(s) == CompactU32(Len(s)) \o s

EncodeVecStr(v) ==
    CompactU32(Len(v)) \o Flatten([i \in 1..Len(v) |-> EncodeStr(v[i])])

\* Mutant of Encode: name and chain are written in the wrong order.
EncodeSwapped(m) ==
    U32LE(m.version) \o EncodeStr(m.chain) \o EncodeStr(m.name)
        \o m.genesis_hash \o EncodeVecStr(m.capabilities)

\* #[derive(Encode)]: every field in declaration order.
Encode(m) ==
    U32LE(m.version) \o EncodeStr(m.name) \o EncodeStr(m.chain)
        \o m.genesis_hash \o EncodeVecStr(m.capabilities)

\* Decoders read buffer b from position p (1-based) and yield
\* [ok, val, pos]: the value and the position after it, or ok = FALSE.
DecFail == [ok |-> FALSE, val |-> 0, pos |-> 0]

DecOk(v, p) == [ok |-> TRUE, val |-> v, pos |-> p]

Avail(b, p) == Len(b) - p + 1

DecodeU32(b, p) ==
    IF Avail(b, p) < 4 THEN DecFail
    ELSE DecOk(b[p] + 256 * b[p + 1] + 65536 * b[p + 2] + 16777216 * b[p + 3], p + 4)

\* Compact<u32>::decode: the mode is in the two low bits of the first byte;
\* an encoding longer than the value needs is rejected.
DecodeCompactU32(b, p) ==
    IF Avail(b, p) < 1 THEN DecFail
    ELSE LET mode == b[p] % 4 IN
         CASE mode = 0 -> DecOk(b[p] \div 4, p + 1)
           [] mode = 1 ->
                IF Avail(b, p) < 2 THEN DecFail
                ELSE LET x == (b[p] + 256 * b[p + 1]) \div 4 IN
                     IF x > 63 /\ x <= 16383 THEN DecOk(x, p + 2) ELSE DecFail
           [] mode = 2 ->
                LET r == DecodeU32(b, p) IN
                IF ~r.ok THEN DecFail
                ELSE LET x == r.val \div 4 IN
                     IF x > 16383 /\ x <= 1073741823 THEN DecOk(x, p + 4) ELSE DecFail
           [] OTHER ->
                IF b[p] \div 4 # 0 THEN DecFail
                ELSE LET r == DecodeU32(b, p + 1) IN
                     IF r.ok /\ r.val > 1073741823 THEN DecOk(r.val, p + 5) ELSE DecFail

\* core::str::from_utf8: well-formed UTF-8 (no overlong forms, no
\* surrogates, nothing above U+10FFFF).  A run of ASCII bytes is passed over
\* in one step, as the library does.
IsCont(x) == x >= 128 /\ x <= 191

RECURSIVE IsUtf8(_)
IsUtf8(s) ==
    IF s = <<>> THEN TRUE
    ELSE LET a == s[1]
             n == Len(s)
             Rest(k) == \E t \in {SubSeq(s, k, n)} : IsUtf8(t)
             AsciiEnd ==
                 CHOOSE i \in 2..(n + 1) :
                     /\ \A j \in 1..(i - 1) : s[j] < 128
                     /\ i = n + 1 \/ s[i] >= 128
         IN
         IF a < 128 THEN Rest(AsciiEnd)
         ELSE IF a >= 194 /\ a <= 223
              THEN n >= 2 /\ IsCont(s[2]) /\ Rest(3)
         ELSE IF a >= 224 /\ a <= 239
              THEN /\ n >= 3
                   /\ IsCont(s[2])
                   /\ IsCont(s[3])
                   /\ (a = 224 => s[2] >= 160)
                   /\ (a = 237 => s[2] <= 159)
                   /\ Rest(4)
         ELSE IF a >= 240 /\ a <= 244
              THEN /\ n >= 4
                   /\ IsCont(s[2])
                   /\ IsCont(s[3])
                   /\ IsCont(s[4])
                   /\ (a = 240 => s[2] >= 144)
                   /\ (a = 244 => s[2] <= 143)
                   /\ Rest(5)
         ELSE FALSE

\* String::decode: Vec<u8>::decode, then from_utf8.
DecodeStr(b, p) ==
    LET l == DecodeCompactU32(b, p) IN
    IF ~l.ok THEN DecFail
    ELSE IF Avail(b, l.pos) < l.val THEN DecFail
    ELSE LET s == SubSeq(b, l.pos, l.pos + l.val - 1) IN
         IF IsUtf8(s) THEN DecOk(s, l.pos + l.val) ELSE DecFail

\* The items of a Vec<String>, one after another.
RECURSIVE DecodeStrItems(_, _, _, _)
DecodeStrItems(b, p, count, acc) ==
    IF count = 0 THEN DecOk(acc, p)
    ELSE LET s == DecodeStr(b, p) IN
         IF ~s.ok THEN DecFail
         ELSE DecodeStrItems(b, s.pos, count - 1, Append(acc, s.val))

DecodeVecStr(b, p) ==
    LET l == DecodeCompactU32(b, p) IN
    IF ~l.ok THEN DecFail ELSE DecodeStrItems(b, l.pos, l.val, <<>>)

\* [u8; 32]::decode: exactly HashLen raw bytes.
HashLen == 32

DecodeHash(b, p) ==
    IF Avail(b, p) < HashLen THEN DecFail
    ELSE DecOk(SubSeq(b, p, p + HashLen - 1), p + HashLen)

\* The one element of a singleton set.
The(S) == CHOOSE r \in S : TRUE

\* #[derive(Decode)]: every field in declaration order, each read where the
\* one before it ended; the first field that fails ends the decoding (the ?
\* of the derived code); bytes left after the last field are not looked at
\* (decode, not decode_all).  Each field is decoded once: v, n, c, g and k
\* are the results for version, name, chain, genesis_hash and capabilities.
Decode(b) ==
    The({IF ~v.ok THEN DecFail ELSE
    The({IF ~n.ok THEN DecFail ELSE
    The({IF ~c.ok THEN DecFail ELSE
    The({IF ~g.ok THEN DecFail ELSE
    The({IF ~k.ok THEN DecFail ELSE
         DecOk([version |-> v.val, name |-> n.val, chain |-> c.val,
                genesis_hash |-> g.val, capabilities |-> k.val], k.pos)
         : k \in {DecodeVecStr(b, g.pos)}})
         : g \in {DecodeHash(b, c.pos)}})
         : c \in {DecodeStr(b, n.pos)}})
         : n \in {DecodeStr(b, v.pos)}})
         : v \in {DecodeU32(b, 1)}})

(***************************************************************************)
(* Frames and stream items.  A text frame's content is a JSON text: either *)
(* not well-formed, or an object with a set of keys; id and method are the *)
(* values of the keys of that name when present.                           *)
(***************************************************************************)
\* serde_json's Value::Null, what response["id"] yields for a missing key.
Null == -1

NoText == [wellformed |-> FALSE, keys |-> {}, id |-> Null, method |-> ""]

\* What ws_stream.next() yields: None, Some(Err(e)) or Some(Ok(frame)).
None == [res |-> "None", type |-> "", bytes |-> <<>>, text |-> NoText]

TransportError == [res |-> "Err", type |-> "", bytes |-> <<>>, text |-> NoText]

Binary(b) == [res |-> "Ok", type |-> "Binary", bytes |-> b, text |-> NoText]

Text(t) == [res |-> "Ok", type |-> "Text", bytes |-> <<>>, text |-> t]

\* serde_json::to_string of an object / serde_json::from_str of a text.
JsonToString(v) == [wellformed |-> TRUE, keys |-> v.keys, id |-> v.id, method |-> v.method]

JsonFromStr(t) ==
    IF t.wellformed
    THEN [ok |-> TRUE, val |-> [keys |-> t.keys, id |-> t.id, method |-> t.method]]
    ELSE [ok |-> FALSE, val |-> [keys |-> {}, id |-> Null, method |-> ""]]

\* Value::get(key) is Some(_); Value::index(key) is Null for a missing key.
Has(v, key) == key \in v.keys

IndexId(v) == IF Has(v, "id") THEN v.id ELSE Null

(***************************************************************************)
(* Program constants.                                                      *)
(***************************************************************************)
\* Opt::genesis_hash's default value, hex-decoded.
DefaultGenesisHash ==
    << 89, 114, 236, 191, 188, 66, 80, 116, 130, 219, 203, 10, 40, 146, 188, 215,
       1, 97, 253, 154, 205, 253, 247, 230, 69, 90, 179, 155, 172, 61, 251, 131 >>

\* Opt::genesis_hash's default value: a string is its sequence of characters.
DefaultGenesisHex ==
    << "5", "9", "7", "2", "e", "c", "b", "f", "b", "c", "4", "2", "5", "0", "7", "4",
       "8", "2", "d", "b", "c", "b", "0", "a", "2", "8", "9", "2", "b", "c", "d", "7",
       "0", "1", "6", "1", "f", "d", "9", "a", "c", "d", "f", "d", "f", "7", "e", "6",
       "4", "5", "5", "a", "b", "3", "9", "b", "a", "c", "3", "d", "f", "b", "8", "3" >>

\* hex::decode: an odd number of characters or a character that is no hex
\* digit is an error; otherwise one byte per two characters.
HexLower ==
    << "0", "1", "2", "3", "4", "5", "6", "7", "8", "9", "a", "b", "c", "d", "e", "f" >>

HexUpper ==
    << "0", "1", "2", "3", "4", "5", "6", "7", "8", "9", "A", "B", "C", "D", "E", "F" >>

IsHexDigit(c) == \E i \in 1..16 : c = HexLower[i] \/ c = HexUpper[i]

HexVal(c) == (CHOOSE i \in 1..16 : c = HexLower[i] \/ c = HexUpper[i]) - 1

HexDecode(s) ==
    IF Len(s) % 2 # 0 \/ \E i \in 1..Len(s) : ~IsHexDigit(s[i])
    THEN [ok |-> FALSE, val |-> <<>>]
    ELSE [ok |-> TRUE,
          val |-> [i \in 1..(Len(s) \div 2) |->
                      16 * HexVal(s[2 * i - 1]) + HexVal(s[2 * i])]]

\* Mutant of TryIntoHash: a vector of another length is cut or padded with
\* zeros to 32 bytes.
TryIntoHashLenient(v) ==
    [ok |-> TRUE, val |-> [i \in 1..HashLen |-> IF i <= Len(v) THEN v[i] ELSE 0]]

\* Vec<u8>::try_into::<[u8; 32]>: fails unless the vector has 32 bytes.
TryIntoHash(v) ==
    IF Len(v) = HashLen THEN [ok |-> TRUE, val |-> v] ELSE [ok |-> FALSE, val |-> <<>>]

\* "my-node", "my-chain", "full" as UTF-8.
MyNode == << 109, 121, 45, 110, 111, 100, 101 >>

MyChain == << 109, 121, 45, 99, 104, 97, 105, 110 >>

Full == << 102, 117, 108, 108 >>

\* HandshakeMessage::new
NewHandshakeMessage(name, chain, genesis, capabilities) ==
    [version |-> 1, name |-> name, chain |-> chain,
     genesis_hash |-> genesis, capabilities |-> capabilities]

\* The batch of query_node_info, in send order.
Request(method, id) ==
    [keys |-> {"jsonrpc", "method", "params", "id"}, id |-> id, method |-> method]

\* Mutant of requests: the second request reuses the id of the first.
requestsRepeatedId ==
    << Request("system_name", 1), Request("system_chain", 1),
       Request("system_version", 3) >>

requests ==
    << Request("system_name", 1), Request("system_chain", 2),
       Request("system_version", 3) >>

RequestIds == {requests[i].id : i \in 1..Len(requests)}

(***************************************************************************)
(* State.                                                                  *)
(***************************************************************************)
VARIABLES
    pc,                 \* main's position
    opt_genesis_hash,   \* opt.genesis_hash, the --genesis-hash argument
    codec,              \* a round trip through the Message Codec
    genesis_hash,       \* the parsed --genesis-hash, [u8; 32]
    lock,               \* the holder of the Mutex around the stream
    inbox,              \* inbound stream: items delivered, not yet read
    peerClosed,         \* the peer has closed the stream
    delivered,          \* number of items the peer has delivered
    sent,               \* frames written to the stream, in order
    taken,              \* items read off the stream, per operation, in order
    hsReply,            \* what next() yielded in perform_handshake
    qReply,             \* what next() last yielded in query_node_info
    hsResult,           \* perform_handshake's return value
    reqIdx,             \* query_node_info: index of the next request to send
    received_responses, \* query_node_info: the loop's counter
    qResult,            \* query_node_info's return value
    mainResult,         \* main's return value
    log                 \* the log lines written, in order

vars ==
    << pc, opt_genesis_hash, codec, genesis_hash, lock, inbox, peerClosed, delivered,
       sent, taken, hsReply, qReply, hsResult, reqIdx, received_responses, qResult,
       mainResult, log >>

\* The state of main and of the stream.
mainVars ==
    << pc, opt_genesis_hash, genesis_hash, lock, inbox, peerClosed, delivered,
       sent, taken, hsReply, qReply, hsResult, reqIdx, received_responses, qResult,
       mainResult, log >>

Info(line, id) == [level |-> "info", line |-> line, id |-> id]

Error(line, id) == [level |-> "error", line |-> line, id |-> id]

(***************************************************************************)
(* The peer.                                                               *)
(***************************************************************************)
ResultResponse(id) ==
    JsonToString([keys |-> {"jsonrpc", "id", "result"}, id |-> id, method |-> ""])

ErrorResponse(id) ==
    JsonToString([keys |-> {"jsonrpc", "id", "error"}, id |-> id, method |-> ""])

\* An object with neither "id" nor "error".
Notice == JsonToString([keys |-> {"jsonrpc", "method"}, id |-> Null, method |-> "notice"])

\* A text that is not JSON.
Garbage == NoText

HandshakeMsg == NewHandshakeMessage(MyNode, MyChain, genesis_hash, << Full >>)

\* Ids the peer may answer for: those of the batch and one never sent.
PeerIds == RequestIds \cup {Len(requests) + 1}

\* Ids the peer may report an error for.
PeerErrorIds == {2}

\* The handshake of a node of another chain and protocol version.
Other == << 111, 116, 104, 101, 114 >>

OtherMsg ==
    [version |-> 2, name |-> Other, chain |-> Other,
     genesis_hash |-> [i \in 1..HashLen |-> 0], capabilities |-> <<>>]

\* The first item the peer delivers is the one perform_handshake reads (it
\* reads one item, and query_node_info runs after it): the client's message
\* echoed, another node's message, a message cut short, a text frame, or a
\* transport error.
HandshakeReplies ==
    {Binary(Encode(HandshakeMsg)), Binary(Encode(OtherMsg)),
     Binary(SubSeq(Encode(HandshakeMsg), 1, Len(Encode(HandshakeMsg)) - 1)),
     Text(Notice), TransportError}

\* The items the peer delivers after the first.
QueryReplies ==
    {Binary(<<>>), Text(Notice), Text(Garbage), TransportError}
        \cup {Text(ResultResponse(i)) : i \in PeerIds}
        \cup {Text(ErrorResponse(i)) : i \in PeerErrorIds}

PeerItems == IF delivered = 0 THEN HandshakeReplies ELSE QueryReplies

Connected == pc \notin {"start", "connect", "done"}

PeerSend(item) ==
    /\ Connected
    /\ ~peerClosed
    /\ delivered < MaxFrames
    /\ Len(inbox) < MaxInFlight
    /\ inbox' = Append(inbox, item)
    /\ delivered' = delivered + 1
    /\ UNCHANGED << pc, opt_genesis_hash, codec, genesis_hash, lock, peerClosed, sent, taken, hsReply, qReply,
                    hsResult, reqIdx, received_responses, qResult, mainResult, log >>

PeerClose ==
    /\ Connected
    /\ ~peerClosed
    /\ peerClosed' = TRUE
    /\ UNCHANGED << pc, opt_genesis_hash, codec, genesis_hash, lock, inbox, delivered, sent, taken, hsReply, qReply,
                    hsResult, reqIdx, received_responses, qResult, mainResult, log >>

\* ws_stream.next().await: pending while nothing has arrived and the stream
\* is open; None once the peer has closed and everything was read.
NextReady == inbox # <<>> \/ peerClosed

NextItem == IF inbox # <<>> THEN Head(inbox) ELSE None

NextRest == IF inbox # <<>> THEN Tail(inbox) ELSE inbox

NextTaken == IF inbox # <<>> THEN << Head(inbox) >> ELSE <<>>

(***************************************************************************)
(* main, perform_handshake and query_node_info.                            *)
(***************************************************************************)
\* hsReply and qReply before the stream has been read.
NotRead == [res |-> "Pending", type |-> "", bytes |-> <<>>, text |-> NoText]

\* The --genesis-hash arguments tried: the default, the default without its
\* last byte or its last character, with a byte more, with a character that
\* is no hex digit, and the empty string.
GenesisInputs ==
    {DefaultGenesisHex,
     SubSeq(DefaultGenesisHex, 1, 62),
     SubSeq(DefaultGenesisHex, 1, 63),
     DefaultGenesisHex \o << "0", "0" >>,
     [DefaultGenesisHex EXCEPT ![64] = "g"],
     <<>>}

\* No round trip under way.
CodecIdle ==
    [at |-> "idle",
     x |-> NewHandshakeMessage(MyNode, MyChain, DefaultGenesisHash, << Full >>),
     wire |-> <<>>, out |-> DecFail]

Init ==
    /\ pc = "start"
    /\ opt_genesis_hash \in GenesisInputs
    /\ codec = CodecIdle
    /\ genesis_hash = <<>>
    /\ lock = "free"
    /\ inbox = <<>>
    /\ peerClosed = FALSE
    /\ delivered = 0
    /\ sent = <<>>
    /\ taken = [handshake |-> <<>>, query |-> <<>>]
    /\ hsReply = NotRead
    /\ qReply = NotRead
    /\ hsResult = "none"
    /\ reqIdx = 1
    /\ received_responses = 0
    /\ qResult = "none"
    /\ mainResult = "none"
    /\ log = <<>>

\* main: hex::decode(&opt.genesis_hash)? returns the error; try_into().expect()
\* panics on a vector that has not 32 bytes.
ParseGenesisHash ==
    /\ pc = "start"
    /\ LET vec == HexDecode(opt_genesis_hash)
           arr == TryIntoHash(vec.val)
       IN
       IF ~vec.ok
       THEN /\ mainResult' = "Err"
            /\ pc' = "done"
            /\ UNCHANGED genesis_hash
       ELSE IF ~arr.ok
       THEN /\ mainResult' = "Panic"
            /\ pc' = "done"
            /\ UNCHANGED genesis_hash
       ELSE /\ genesis_hash' = arr.val
            /\ pc' = "connect"
            /\ UNCHANGED mainResult
    /\ UNCHANGED << opt_genesis_hash, codec, lock, inbox, peerClosed, delivered, sent, taken,
                    hsReply, qReply, hsResult, reqIdx, received_responses, qResult,
                    log >>

\* connect_async(&opt.node_address).await and the match on its result.
Connect(ok) ==
    /\ pc = "connect"
    /\ IF ok
       THEN /\ pc' = "hs_lock"
            /\ log' = log \o << Info(176, Null), Info(179, Null) >>
            /\ UNCHANGED mainResult
       ELSE /\ pc' = "done"
            /\ log' = log \o << Info(176, Null), Error(183, Null) >>
            /\ mainResult' = "Err"
    /\ UNCHANGED << opt_genesis_hash, codec, genesis_hash, lock, inbox, peerClosed, delivered, sent, taken,
                    hsReply, qReply, hsResult, reqIdx, received_responses, qResult >>

\* Mutant of Unlock: the lock is released on the success path only.
UnlockOnSuccess(result) == IF result = "Ok" THEN "free" ELSE lock

\* The Mutex once the MutexGuard of a returning function is dropped,
\* whatever the function returns.
Unlock(result) == "free"

\* perform_handshake: ws_stream.lock().await
HsLock ==
    /\ pc = "hs_lock"
    /\ lock = "free"
    /\ lock' = "handshake"
    /\ pc' = "hs_send"
    /\ UNCHANGED << opt_genesis_hash, codec, genesis_hash, inbox, peerClosed, delivered, sent, taken, hsReply, qReply,
                    hsResult, reqIdx, received_responses, qResult, mainResult, log >>

\* perform_handshake: ws_stream.send(Message::Binary(encoded_msg)).await?
HsSend(ok) ==
    /\ pc = "hs_send"
    /\ IF ok
       THEN /\ sent' = Append(sent, Binary(Encode(HandshakeMsg)))
            /\ pc' = "hs_recv"
            /\ UNCHANGED << lock, hsResult >>
       ELSE /\ hsResult' = "Err"
            /\ lock' = Unlock("Err")
            /\ pc' = "hs_done"
            /\ UNCHANGED sent
    /\ UNCHANGED << opt_genesis_hash, codec, genesis_hash, inbox, peerClosed, delivered, taken, hsReply, qReply,
                    reqIdx, received_responses, qResult, mainResult, log >>

\* Mutant of HandshakeOutcome: a reply for another genesis hash is refused.
HandshakeOutcomeValidating(item) ==
    IF item.res = "None" THEN "Ok"
    ELSE IF item.res = "Err" THEN "Err"
    ELSE IF item.type = "Binary"
         THEN IF /\ Decode(item.bytes).ok
                 /\ Decode(item.bytes).val.genesis_hash = genesis_hash
              THEN "Ok"
              ELSE "Err"
    ELSE "Ok"

\* perform_handshake from `if let Some(msg) = ws_stream.next().await` to its
\* return, for what next() yielded.
HandshakeOutcome(item) ==
    IF item.res = "None" THEN "Ok"
    ELSE IF item.res = "Err" THEN "Err"
    ELSE IF item.type = "Binary"
         THEN IF Decode(item.bytes).ok THEN "Ok" ELSE "Err"
    ELSE "Ok"

\* The log line of a decoded reply.
HandshakeLog(item) ==
    IF item.res = "Ok" /\ item.type = "Binary" /\ Decode(item.bytes).ok
    THEN << Info(73, Null) >>
    ELSE <<>>

\* Mutant of HsRecv: the handshake reads everything that has arrived and
\* looks at the first item.
HsRecvDrains ==
    /\ pc = "hs_recv"
    /\ NextReady
    /\ hsReply' = NextItem
    /\ inbox' = <<>>
    /\ taken' = [taken EXCEPT !.handshake = @ \o inbox]
    /\ hsResult' = HandshakeOutcome(NextItem)
    /\ log' = log \o HandshakeLog(NextItem)
    /\ lock' = Unlock(HandshakeOutcome(NextItem))
    /\ pc' = "hs_done"
    /\ UNCHANGED << opt_genesis_hash, codec, genesis_hash, peerClosed, delivered, sent,
                    qReply, reqIdx, received_responses, qResult, mainResult >>

HsRecv ==
    /\ pc = "hs_recv"
    /\ NextReady
    /\ hsReply' = NextItem
    /\ inbox' = NextRest
    /\ taken' = [taken EXCEPT !.handshake = @ \o NextTaken]
    /\ hsResult' = HandshakeOutcome(NextItem)
    /\ log' = log \o HandshakeLog(NextItem)
    /\ lock' = Unlock(HandshakeOutcome(NextItem))
    /\ pc' = "hs_done"
    /\ UNCHANGED << opt_genesis_hash, codec, genesis_hash, peerClosed, delivered, sent, qReply, reqIdx,
                    received_responses, qResult, mainResult >>

\* main: if let Err(e) = perform_handshake(..).await { .. return Err(e) }
MainAfterHandshake ==
    /\ pc = "hs_done"
    /\ IF hsResult = "Err"
       THEN /\ log' = Append(log, Error(191, Null))
            /\ mainResult' = "Err"
            /\ pc' = "done"
       ELSE /\ log' = Append(log, Info(194, Null))
            /\ pc' = "q_lock"
            /\ UNCHANGED mainResult
    /\ UNCHANGED << opt_genesis_hash, codec, genesis_hash, lock, inbox, peerClosed, delivered, sent, taken,
                    hsReply, qReply, hsResult, reqIdx, received_responses, qResult >>

\* Mutant of QLock: the guard is dropped as soon as it is obtained
\* (`let _ = ws_stream.lock().await`), so the batch runs without the lock.
QLockGuardDropped ==
    /\ pc = "q_lock"
    /\ lock = "free"
    /\ pc' = "q_send"
    /\ UNCHANGED << opt_genesis_hash, codec, genesis_hash, lock, inbox, peerClosed, delivered, sent, taken,
                    hsReply, qReply, hsResult, reqIdx, received_responses, qResult,
                    mainResult, log >>

\* query_node_info: ws_stream.lock().await
QLock ==
    /\ pc = "q_lock"
    /\ lock = "free"
    /\ lock' = "query"
    /\ pc' = "q_send"
    /\ UNCHANGED << opt_genesis_hash, codec, genesis_hash, inbox, peerClosed, delivered, sent, taken, hsReply, qReply,
                    hsResult, reqIdx, received_responses, qResult, mainResult, log >>

\* query_node_info: one turn of `for request in &requests`; after the last
\* request, received_responses = 0 and the while loop is entered.
QSend(ok) ==
    /\ pc = "q_send"
    /\ reqIdx <= Len(requests)
    /\ log' = Append(log, Info(116, requests[reqIdx].id))
    /\ IF ok
       THEN /\ sent' = Append(sent, Text(JsonToString(requests[reqIdx])))
            /\ reqIdx' = reqIdx + 1
            /\ pc' = IF reqIdx + 1 > Len(requests) THEN "q_recv" ELSE "q_send"
            /\ UNCHANGED << lock, qResult >>
       ELSE /\ qResult' = "Err"
            /\ lock' = Unlock("Err")
            /\ pc' = "q_done"
            /\ UNCHANGED << sent, reqIdx >>
    /\ received_responses' = 0
    /\ UNCHANGED << opt_genesis_hash, codec, genesis_hash, inbox, peerClosed, delivered, taken, hsReply, qReply,
                    hsResult, mainResult >>

\* The arms of the loop body for a parsed response v, the counter being n:
\* ret is "Err" when the function returns from within the body.
\* Mutant of ErrorArm: an error response ends the batch.
ErrorArmAborts(v, n) ==
    [ret |-> "Err", received |-> n, log |-> << Error(128, IndexId(v)) >>]

ErrorArm(v, n) ==
    [ret |-> "loop", received |-> n, log |-> << Error(128, IndexId(v)) >>]

\* Mutant of ResultArm: the response is attributed to its arrival position.
ResultArmByPosition(v, n) ==
    [ret |-> "loop", received |-> n + 1, log |-> << Info(133, n + 1) >>]

\* Mutant of ResultArm: the response is logged and the counter forgotten.
ResultArmUncounted(v, n) ==
    [ret |-> "loop", received |-> n, log |-> << Info(133, v.id) >>]

ResultArm(v, n) ==
    [ret |-> "loop", received |-> n + 1, log |-> << Info(133, v.id) >>]

\* Mutant of UnexpectedArm: a response of neither shape is counted.
UnexpectedArmCounts(v, n) ==
    [ret |-> "loop", received |-> n + 1, log |-> << Error(136, Null) >>]

\* Mutant of UnexpectedArm: a response of neither shape ends the batch.
UnexpectedArmAborts(v, n) ==
    [ret |-> "Err", received |-> n, log |-> << Error(136, Null) >>]

UnexpectedArm(v, n) ==
    [ret |-> "loop", received |-> n, log |-> << Error(136, Null) >>]

\* query_node_info: the body of `while received_responses < requests.len()`
\* for what next() yielded.
QueryStep(item, n) ==
    IF item.res = "None" THEN [ret |-> "loop", received |-> n, log |-> <<>>]
    ELSE IF item.res = "Err" THEN [ret |-> "Err", received |-> n, log |-> <<>>]
    ELSE IF item.type = "Text"
         THEN LET response == JsonFromStr(item.text) IN
              IF ~response.ok THEN [ret |-> "Err", received |-> n, log |-> <<>>]
              ELSE IF Has(response.val, "error") THEN ErrorArm(response.val, n)
              ELSE IF Has(response.val, "id") THEN ResultArm(response.val, n)
              ELSE UnexpectedArm(response.val, n)
    ELSE [ret |-> "loop", received |-> n, log |-> <<>>]

\* Mutant of LoopGoesOn: the loop runs once more than there are requests.
LoopGoesOnOffByOne(n) == n <= Len(requests)

\* The loop's condition.
LoopGoesOn(n) == n < Len(requests)

\* query_node_info: one turn of the while loop, and the return that ends it.
QRecv ==
    /\ pc = "q_recv"
    /\ NextReady
    /\ LET step == QueryStep(NextItem, received_responses)
           result == IF step.ret = "Err" THEN "Err"
                     ELSE IF LoopGoesOn(step.received) THEN "none"
                     ELSE "Ok"
       IN
       /\ inbox' = NextRest
       /\ taken' = [taken EXCEPT !.query = @ \o NextTaken]
       /\ qReply' = NextItem
       /\ received_responses' = step.received
       /\ log' = log \o step.log
       /\ qResult' = result
       /\ IF result = "none"
          THEN UNCHANGED << pc, lock >>
          ELSE /\ pc' = "q_done"
               /\ lock' = Unlock(result)
    /\ UNCHANGED << opt_genesis_hash, codec, genesis_hash, peerClosed, delivered, sent, hsReply, hsResult,
                    reqIdx, mainResult >>

\* main: if let Err(e) = query_node_info(..).await { .. return Err(e) }; Ok(())
MainAfterQuery ==
    /\ pc = "q_done"
    /\ IF qResult = "Err"
       THEN /\ log' = Append(log, Error(197, Null))
            /\ mainResult' = "Err"
       ELSE /\ log' = Append(log, Info(200, Null))
            /\ mainResult' = "Ok"
    /\ pc' = "done"
    /\ UNCHANGED << opt_genesis_hash, codec, genesis_hash, lock, inbox, peerClosed, delivered, sent, taken,
                    hsReply, qReply, hsResult, reqIdx, received_responses, qResult >>

Next ==
    \/ ParseGenesisHash
    \/ \E ok \in BOOLEAN : Connect(ok)
    \/ HsLock
    \/ \E ok \in BOOLEAN : HsSend(ok)
    \/ HsRecv
    \/ MainAfterHandshake
    \/ QLock
    \/ \E ok \in BOOLEAN : QSend(ok)
    \/ QRecv
    \/ MainAfterQuery
    \/ \E item \in PeerItems : PeerSend(item)
    \/ PeerClose

Spec == Init /\ [][Next]_vars

TypeOK ==
    /\ pc \in {"start", "connect", "hs_lock", "hs_send", "hs_recv", "hs_done",
               "q_lock", "q_send", "q_recv", "q_done", "done"}
    /\ lock \in {"free", "handshake", "query"}
    /\ delivered \in 0..MaxFrames
    /\ Len(inbox) <= MaxInFlight
    /\ received_responses \in 0..Len(requests)
    /\ reqIdx \in 1..(Len(requests) + 1)
    /\ hsResult \in {"none", "Ok", "Err"}
    /\ qResult \in {"none", "Ok", "Err"}
    /\ mainResult \in {"none", "Ok", "Err", "Panic"}
    /\ pc \notin {"start", "done"} => genesis_hash = DefaultGenesisHash

(***************************************************************************)
(* The session with a cooperative peer and fair scheduling: the arguments  *)
(* are valid, the transport accepts the connection and every send, and the *)
(* peer answers the handshake with one binary frame that decodes and each  *)
(* request with one result response, in any order, and does not close.    *)
(* The tokio runtime polls main whenever it can go on, and the peer sends  *)
(* every answer it owes.                                                   *)
(***************************************************************************)
\* Ids of the responses delivered so far.
AnsweredIds ==
    {inbox[i].text.id : i \in {j \in 1..Len(inbox) : inbox[j].type = "Text"}}
        \cup {taken.query[i].text.id : i \in 1..Len(taken.query)}

\* What the cooperative peer owes: the handshake reply once the handshake
\* message is written, then a result for every request written and not yet
\* answered.
CoopItems ==
    IF delivered = 0
    THEN IF sent = <<>> THEN {}
         ELSE {Binary(Encode(HandshakeMsg)), Binary(Encode(OtherMsg))}
    ELSE {Text(ResultResponse(sent[i].text.id)) :
              i \in {j \in 1..Len(sent) :
                         sent[j].type = "Text" /\ sent[j].text.id \notin AnsweredIds}}

CoopPeerSend == \E item \in CoopItems : PeerSend(item)

LiveInit == Init /\ opt_genesis_hash = DefaultGenesisHex

LiveMain ==
    \/ ParseGenesisHash
    \/ Connect(TRUE)
    \/ HsLock
    \/ HsSend(TRUE)
    \/ HsRecv
    \/ MainAfterHandshake
    \/ QLock
    \/ QSend(TRUE)
    \/ QRecv
    \/ MainAfterQuery

LiveNext == LiveMain \/ CoopPeerSend

LiveSpec ==
    LiveInit /\ [][LiveNext]_vars /\ WF_vars(LiveMain) /\ WF_vars(CoopPeerSend)

(***************************************************************************)
(* The Message Codec on its own: a message is encoded, the bytes come back *)
(* from a peer that echoes them, and are decoded.                          *)
(***************************************************************************)
\* Length of the long strings and lists tried: one that needs the two-byte
\* form of the length prefix.
LongLen == 64

\* Valid UTF-8 strings: empty, ASCII, long, and "h\u{e9}\u{20ac}\u{1f600}".
CodecStrings ==
    {<<>>, MyNode, MyChain, [i \in 1..LongLen |-> 97],
     << 104, 195, 169, 226, 130, 172, 240, 159, 152, 128 >>}

\* u32 values, up to the largest integer TLC represents (2^31 - 1).
CodecVersions == {0, 1, 258, 2147483647}

CodecHashes == {DefaultGenesisHash, [i \in 1..HashLen |-> 0]}

CodecCapabilities ==
    {<<>>, << Full >>, << Full, <<>>, MyNode >>,
     << [i \in 1..LongLen |-> 97], Full >>}

\* The valid messages tried; the one perform_handshake sends is among them.
CodecMessages ==
    [version : CodecVersions, name : CodecStrings, chain : {<<>>, MyChain},
     genesis_hash : CodecHashes, capabilities : CodecCapabilities]

CodecInit ==
    /\ codec \in [at : {"new"}, x : CodecMessages, wire : {<<>>}, out : {DecFail}]
    /\ pc = "done"
    /\ opt_genesis_hash = DefaultGenesisHex
    /\ genesis_hash = DefaultGenesisHash
    /\ lock = "free"
    /\ inbox = <<>>
    /\ peerClosed = FALSE
    /\ delivered = 0
    /\ sent = <<>>
    /\ taken = [handshake |-> <<>>, query |-> <<>>]
    /\ hsReply = NotRead
    /\ qReply = NotRead
    /\ hsResult = "none"
    /\ reqIdx = 1
    /\ received_responses = 0
    /\ qResult = "none"
    /\ mainResult = "none"
    /\ log = <<>>

\* handshake_msg.encode()
CodecEncode ==
    /\ codec.at = "new"
    /\ codec' = [codec EXCEPT !.at = "encoded", !.wire = Encode(codec.x)]
    /\ UNCHANGED mainVars

\* HandshakeMessage::decode(&mut &bin[..]) of the bytes echoed back
CodecDecode ==
    /\ codec.at = "encoded"
    /\ codec' = [codec EXCEPT !.at = "decoded", !.out = Decode(codec.wire)]
    /\ UNCHANGED mainVars

CodecNext == CodecEncode \/ CodecDecode

CodecSpec == CodecInit /\ [][CodecNext]_vars

(***************************************************************************)
(* Properties.                                                             *)
(***************************************************************************)
Last(q) == q[Len(q)]

\* A request frame of the batch among the frames written.
RequestSent == \E i \in 1..Len(sent) : sent[i].type = "Text"

\* The handshake message was sent and the one reply read is a binary frame
\* that decodes.
HandshakeCompleted ==
    /\ \E i \in 1..Len(sent) : sent[i].type = "Binary"
    /\ hsReply.res = "Ok"
    /\ hsReply.type = "Binary"
    /\ Decode(hsReply.bytes).ok

\* A text frame holding a JSON object with the given key.
IsTextWith(item, key) ==
    /\ item.res = "Ok"
    /\ item.type = "Text"
    /\ item.text.wellformed
    /\ key \in item.text.keys

IsErrorResponse(item) == IsTextWith(item, "error") /\ IsTextWith(item, "id")

IsResultResponse(item) ==
    /\ IsTextWith(item, "result")
    /\ IsTextWith(item, "id")
    /\ ~IsTextWith(item, "error")

\* The ids of the result lines (133) of the log, in order.
ResolvedLines == SelectSeq(log, LAMBDA e : e.line = 133)

ErrorLines == SelectSeq(log, LAMBDA e : e.line = 128)

QueryReturned == pc \in {"q_done", "done"} /\ qResult # "none"

\* C1: no JSON-RPC request frame is sent unless the handshake has completed
\* (handshake message sent, one binary reply received and decoded).
C1_NoRequestWithoutHandshake == RequestSent => HandshakeCompleted

\* C2: when the peer closes the stream before any reply frame arrives
\* (next() yields None), perform_handshake reports a failure.
C2_ClosedBeforeReplyFails == hsReply.res = "None" => hsResult = "Err"

\* C3: when the frame received in reply to the handshake is a text frame,
\* perform_handshake reports a failure.
C3_TextReplyFails ==
    (hsReply.res = "Ok" /\ hsReply.type = "Text") => hsResult = "Err"

\* One response per id of the batch was read, at least one of them an error
\* response and the rest result responses.
OnePerIdWithError ==
    LET q == taken.query IN
    /\ Len(q) = Len(requests)
    /\ \A i \in 1..Len(q) : IsErrorResponse(q[i]) \/ IsResultResponse(q[i])
    /\ {q[i].text.id : i \in 1..Len(q)} = RequestIds
    /\ \E i \in 1..Len(q) : IsErrorResponse(q[i])

\* C4: a response carrying `error` counts as resolved: once one response per
\* id has been read, at least one an error and the rest results, the
\* resolved count equals 3 and the receive loop has terminated.
C4_ErrorCountsAsResolved ==
    OnePerIdWithError =>
        received_responses = Len(requests) /\ QueryReturned /\ qResult = "Ok"

\* Result responses only, for pairwise distinct ids of the batch.
DistinctResults(q) ==
    /\ \A i \in 1..Len(q) : IsResultResponse(q[i]) /\ q[i].text.id \in RequestIds
    /\ \A i, j \in 1..Len(q) : q[i].text.id = q[j].text.id => i = j

\* C5: when the peer delivers one result response per id, in any order,
\* query_node_info resolves one outcome per response, attributed to the id
\* the response carries, and returns success after exactly N frames.
C5_PermutationResolvesAll ==
    LET q == taken.query IN
    DistinctResults(q) =>
        /\ received_responses = Len(q)
        /\ ResolvedLines = [i \in 1..Len(q) |-> Info(133, q[i].text.id)]
        /\ ErrorLines = <<>>
        /\ Len(q) = Len(requests) => QueryReturned /\ qResult = "Ok"
        /\ Len(q) < Len(requests) => qResult # "Ok"

\* The scenario of the specification: results for ids 1, 3, 2 in this order.
C5_Witness ==
    /\ taken.query = << Text(ResultResponse(1)), Text(ResultResponse(3)),
                        Text(ResultResponse(2)) >>
    /\ qResult = "Ok"
    /\ mainResult = "Ok"

\* C6: resolution is tracked by id: when query_node_info returns success,
\* every request id of the batch has had its own response or error.
C6_SuccessMeansEveryIdAnswered ==
    qResult = "Ok" =>
        \A id \in RequestIds :
            \E i \in 1..Len(taken.query) :
                /\ IsResultResponse(taken.query[i]) \/ IsErrorResponse(taken.query[i])
                /\ taken.query[i].text.id = id

\* C7: when next() yields None (stream closed by the peer) while fewer than
\* all requests are resolved, query_node_info stops receiving and reports
\* failure.
C7_ClosedStreamAbortsBatch ==
    (qReply.res = "None" /\ received_responses < Len(requests)) =>
        QueryReturned /\ qResult = "Err"

\* A step of the receive loop that reads an item.
ReadsInQuery ==
    /\ pc = "q_recv"
    /\ Len(taken'.query) = Len(taken.query) + 1

ReadsErrorResponse == ReadsInQuery /\ IsTextWith(Last(taken'.query), "error")

ReadsResultAfterError ==
    /\ ReadsInQuery
    /\ \E i \in 1..Len(taken.query) : IsTextWith(taken.query[i], "error")
    /\ IsResultResponse(Last(taken'.query))

\* C8: reading an error response never makes query_node_info return or stop
\* receiving, and a result response read after it is still recorded as
\* resolved.
C8_ErrorIsolation ==
    [][ /\ ReadsErrorResponse =>
              pc' = "q_recv" /\ qResult' = "none" /\ lock' = "query"
        /\ ReadsResultAfterError =>
              /\ log' = Append(log, Info(133, Last(taken'.query).text.id))
              /\ received_responses' = received_responses + 1 ]_vars

C8_Witness ==
    /\ taken.query = << Text(ErrorResponse(2)), Text(ResultResponse(1)),
                        Text(ResultResponse(3)) >>
    /\ received_responses = 2
    /\ pc = "q_recv"

\* C9: the lock is released on every exit path of perform_handshake and
\* query_node_info, error returns included, and is free when the query
\* phase acquires it.
C9_LockReleasedOnExit ==
    /\ hsResult # "none" => lock # "handshake"
    /\ qResult # "none" => lock # "query"
    /\ pc \in {"hs_done", "q_lock", "q_done", "done"} => lock = "free"

\* An error return of query_node_info from within the receive loop, the
\* lock having been acquired after the handshake.
C9_Witness ==
    /\ hsResult = "Ok"
    /\ qResult = "Err"
    /\ taken.query # <<>>
    /\ lock = "free"

\* The operation main is in.
Operation ==
    IF pc \in {"hs_send", "hs_recv"} THEN "handshake"
    ELSE IF pc \in {"q_send", "q_recv"} THEN "query"
    ELSE "none"

\* C10: every send and receive on the stream is done by the operation that
\* holds the lock, and an operation that has the lock keeps it until it
\* returns: the query batch from its first send to its last receive.
C10_ExclusiveAccess ==
    [][ /\ (sent' # sent \/ taken' # taken) => lock = Operation
        /\ (lock = "handshake" /\ lock' # lock) => hsResult' # "none"
        /\ (lock = "query" /\ lock' # lock) => qResult' # "none"
        /\ (lock' # lock /\ lock' # "free") => lock = "free" ]_vars

C10_Witness ==
    /\ pc = "q_recv"
    /\ lock = "query"
    /\ Len(sent) = Len(requests) + 1
    /\ Len(taken.handshake) = 1
    /\ Len(taken.query) = 2

\* A hex string of exactly 64 characters.
ValidGenesisInput(h) == Len(h) = 2 * HashLen /\ \A i \in 1..Len(h) : IsHexDigit(h[i])

\* The connection attempt (its log line), or a frame written.
NetworkActivity == sent # <<>> \/ \E i \in 1..Len(log) : log[i].line = 176

\* C11: a genesis hash that is not a hex string of exactly 64 characters is
\* rejected before any network activity: main ends without success (the
\* error of hex::decode returned, or the panic of expect), and neither the
\* connection attempt nor any send happens.
C11_BadGenesisHashRejected ==
    ~ValidGenesisInput(opt_genesis_hash) =>
        /\ ~NetworkActivity
        /\ pc \in {"start", "done"}
        /\ pc = "done" => mainResult \in {"Err", "Panic"}

\* A hex string of 62 characters (31 bytes) has been rejected.
C11_Witness ==
    /\ Len(opt_genesis_hash) = 62
    /\ pc = "done"
    /\ mainResult # "none"

\* C12: round trip: for every valid HandshakeMessage x, decoding the bytes
\* encode(x) succeeds, consumes all of them and yields a message equal to
\* x in every field; so a peer that echoes the client's handshake makes the
\* client decode the message it sent.
C12_RoundTrip ==
    codec.at = "decoded" =>
        /\ codec.out.ok
        /\ codec.out.val.version = codec.x.version
        /\ codec.out.val.name = codec.x.name
        /\ codec.out.val.chain = codec.x.chain
        /\ codec.out.val.genesis_hash = codec.x.genesis_hash
        /\ codec.out.val.capabilities = codec.x.capabilities
        /\ codec.out.val = codec.x
        /\ codec.out.pos = Len(codec.wire) + 1

\* The message perform_handshake sends has gone through the round trip.
C12_Witness ==
    /\ codec.at = "decoded"
    /\ codec.x = NewHandshakeMessage(MyNode, MyChain, DefaultGenesisHash, << Full >>)
    /\ codec.out.ok
    /\ Len(codec.wire) = 59

\* C13: a frame read during the batch that is a text frame whose content is
\* not valid JSON, or a frame that is not a text frame, is fatal to the
\* batch: query_node_info stops and returns an error.
C13_MalformedFrameFatal ==
    (qReply.res = "Ok" /\ (qReply.type # "Text" \/ ~qReply.text.wellformed)) =>
        QueryReturned /\ qResult = "Err"

\* The request frames of the batch as they go on the wire, in order.
ExpectedRequests ==
    << Text([wellformed |-> TRUE, keys |-> {"jsonrpc", "method", "params", "id"},
             id |-> 1, method |-> "system_name"]),
       Text([wellformed |-> TRUE, keys |-> {"jsonrpc", "method", "params", "id"},
             id |-> 2, method |-> "system_chain"]),
       Text([wellformed |-> TRUE, keys |-> {"jsonrpc", "method", "params", "id"},
             id |-> 3, method |-> "system_version"]) >>

\* The frames written after the handshake message.
RequestsSent == SubSeq(sent, 2, Len(sent))

ReceiveBegun == qReply # NotRead \/ taken.query # <<>>

\* C14: the requests are sent in the fixed order id 1 (system_name), id 2
\* (system_chain), id 3 (system_version), all of them before the first
\* reply is received; none is sent after a receive has begun, and a send
\* failure stops the batch before any receive.
C14_RequestsSentInOrderFirst ==
    /\ Len(RequestsSent) <= 3
    /\ RequestsSent = SubSeq(ExpectedRequests, 1, Len(RequestsSent))
    /\ ReceiveBegun => RequestsSent = ExpectedRequests
    /\ (qResult = "Err" /\ Len(RequestsSent) < 3) => ~ReceiveBegun

C14_Witness ==
    /\ RequestsSent = ExpectedRequests
    /\ Len(taken.query) = 2
    /\ pc = "q_recv"

\* A parsed response that has neither an `error` nor an `id` key.
IsNeither(item) ==
    /\ item.res = "Ok"
    /\ item.type = "Text"
    /\ item.text.wellformed
    /\ "error" \notin item.text.keys
    /\ "id" \notin item.text.keys

\* C15: a parsed response with neither `error` nor `id` leaves the resolved
\* count unchanged and does not end the batch: the loop goes on to the next
\* frame.
C15_UnexpectedResponseIgnored ==
    [][ (ReadsInQuery /\ IsNeither(Last(taken'.query))) =>
            /\ received_responses' = received_responses
            /\ pc' = "q_recv"
            /\ qResult' = "none"
            /\ lock' = "query" ]_vars

\* A response of neither shape was read, and the next frame after it.
C15_Witness ==
    /\ taken.query = << Text(ResultResponse(1)), Text(Notice), Text(ResultResponse(2)) >>
    /\ received_responses = 2
    /\ pc = "q_recv"

\* C16: when, after the batch is sent, the peer keeps the stream open and
\* delivers only ignored frames, query_node_info does not terminate:
\* however many such frames were read, it is still in its receive loop.
C16_IgnoredFramesNeverEnd ==
    (/\ RequestsSent = ExpectedRequests
     /\ ~peerClosed
     /\ \A i \in 1..Len(taken.query) : IsNeither(taken.query[i])) =>
        /\ pc = "q_recv"
        /\ qResult = "none"
        /\ received_responses = 0

\* Every frame the peer has sent after the handshake's has been read and
\* ignored, and the loop is still waiting.
C16_Witness ==
    /\ Len(taken.query) = MaxFrames - 1
    /\ \A i \in 1..Len(taken.query) : IsNeither(taken.query[i])
    /\ ~peerClosed
    /\ pc = "q_recv"

\* C17: perform_handshake sends at most one binary frame and reads at most
\* one inbound item, whatever its outcome: every item the peer delivers
\* after the first is still in the stream or was read by the query phase.
C17_HandshakeOneShot ==
    /\ Cardinality({i \in 1..Len(sent) : sent[i].type = "Binary"}) <= 1
    /\ Len(taken.handshake) <= 1
    /\ delivered = Len(taken.handshake) + Len(taken.query) + Len(inbox)
    /\ pc \in {"hs_done", "q_lock", "q_send"} =>
           Len(inbox) = delivered - Len(taken.handshake)

\* The handshake has returned, and a second item is waiting in the stream.
C17_Witness ==
    /\ pc = "hs_done"
    /\ Len(taken.handshake) = 1
    /\ delivered = 2
    /\ Len(inbox) = 1

\* The reply read by perform_handshake is a binary frame that decodes.
ReplyDecoded ==
    hsReply.res = "Ok" /\ hsReply.type = "Binary" /\ Decode(hsReply.bytes).ok

\* C18: the outcome of the handshake does not depend on the field values
\* of the reply: every reply that decodes gives the same success result,
\* and main goes on to the query phase.
C18_ReplyFieldsIgnored ==
    ReplyDecoded =>
        /\ hsResult = "Ok"
        /\ \E i \in 1..Len(log) : log[i] = Info(73, Null)
        /\ pc # "hs_done" => \E i \in 1..Len(log) : log[i] = Info(194, Null)
        /\ mainResult = "Err" => qResult = "Err"

\* A reply for another genesis hash, chain and version was accepted and
\* the query phase has begun.
C18_Witness ==
    /\ hsReply = Binary(Encode(OtherMsg))
    /\ Decode(hsReply.bytes).val.genesis_hash # genesis_hash
    /\ pc = "q_recv"

\* C19: the counter never exceeds the number of requests sent, and once it
\* equals that number the function has returned and takes no further frame
\* from the stream.
C19_NoOverRead ==
    /\ [](received_responses <= Len(requests))
    /\ [](received_responses = Len(requests) => QueryReturned /\ qResult = "Ok")
    /\ [][ received_responses = Len(requests) =>
               /\ taken' = taken
               /\ Len(inbox') >= Len(inbox) ]_vars

\* The batch is complete and a frame the peer sent afterwards is unread.
C19_Witness ==
    /\ received_responses = Len(requests)
    /\ pc = "done"
    /\ Len(inbox) = 1
    /\ delivered = MaxFrames

\* C20: with a cooperative peer and fair scheduling the session always
\* eventually finishes with success: handshake completed, all three
\* requests resolved, lock released.
C20_EventuallySuccess ==
    <>(/\ pc = "done"
       /\ mainResult = "Ok"
       /\ hsResult = "Ok"
       /\ ReplyDecoded
       /\ qResult = "Ok"
       /\ received_responses = Len(requests)
       /\ {ResolvedLines[i].id : i \in 1..Len(ResolvedLines)} = RequestIds
       /\ lock = "free")

\* A session that finished with success, the answers having come in the
\* order 2, 3, 1.
C20_Witness ==
    /\ pc = "done"
    /\ mainResult = "Ok"
    /\ lock = "free"
    /\ taken.query = << Text(ResultResponse(2)), Text(ResultResponse(3)),
                        Text(ResultResponse(1)) >>

====
